---- MODULE Spec2Model ----
\* Order book and trading engine of src/rust/src/main.rs.
\*
\* An OrderBook keeps two PriorityQueue<OrderComparable, i32> (bids, asks) and a
\* HashMap order_id -> Order.  Every push uses the constant priority 1, so the
\* queues order their items by that i32 and never by OrderComparable::cmp.
\* TradingEngine::process_order, close_order and trade have empty bodies that
\* return a constant.
EXTENDS Integers, Sequences, FiniteSets, TLC

\* ---------------------------------------------------------------- bounds
MaxOrderId == 2         \* order ids are "1".."MaxOrderId"
MaxPrice == 2           \* limit prices are 1..MaxPrice
MaxEngineOrders == 1    \* orders a book accepts in the engine-level specification

\* ------------------------------------------------------------- constants
PushPriority == 1       \* the priority add_order hands to PriorityQueue::push

Sides == {"Buy", "Sell"}
\* the engine is built by TradingEngine::new(Some(vec!["AAPL"]), _)
Symbols == {"AAPL"}
\* the symbols of TradingEngine::new(None, _)
DefaultSymbols == {"AAPL", "GOOGL"}
OrderIds == 1..MaxOrderId
Prices == 1..MaxPrice
Qtys == {1, 2}

\* struct Order; a submitted order has cum_qty = 0 and leaves_qty = qty
Order(id, sym, side, price, qty) ==
    [order_id |-> id, symbol |-> sym, price |-> price, qty |-> qty,
     cum_qty |-> 0, leaves_qty |-> qty, side |-> side]

Orders ==
    {Order(id, sym, side, p, q) :
        id \in OrderIds, sym \in Symbols, side \in Sides, p \in Prices, q \in Qtys}

\* what a caller may submit: also a price of 0 and a quantity of 0
SubmittedOrders ==
    {Order(id, sym, side, p, q) :
        id \in OrderIds, sym \in Symbols, side \in Sides,
        p \in 0..MaxPrice, q \in {0} \cup Qtys}

\* the order_id standing for the None of Option<Order>
NoOrderId == 0

VARIABLES
    orderbook_mapping,  \* symbol -> OrderBook [symbol, asks, bids, order_id_mapping]
    trades,             \* the Trade records built so far
    cmp_panicked,       \* OrderComparable::cmp hit its cross-side panic
    last,               \* the last call: operation, arguments, return value
    ticker_mapping,     \* symbol -> latest price
    ticker_lock,        \* the thread that holds the Mutex of ticker_mapping, or Free
    book_lock,          \* symbol -> the thread that holds the book's Mutex, or Free
    threads,            \* thread -> its position [pc, ...] in the call it runs
    shutdown            \* a shutdown of the engine has been requested

\* the variables the threads and the ticker table live in
conc_vars == <<ticker_mapping, ticker_lock, book_lock, threads, shutdown>>

vars == <<orderbook_mapping, trades, cmp_panicked, last, conc_vars>>

\* no thread holds the Mutex
Free == "free"

\* the threads: two callers of update_ticker, the thread TradingEngine::run
\* spawns, and two threads that work on order books
Updaters == {"u1", "u2"}
Refresher == "r"
Workers == {"w1", "w2"}
Threads == Updaters \cup {Refresher} \cup Workers

\* ------------------------------------------------- OrderComparable::cmp
\* Ord for OrderComparable: "panic" on different sides, else by price only
cmp(self, other) ==
    IF self.side # other.side THEN "panic"
    ELSE IF self.side = "Buy"
         THEN IF self.price > other.price THEN "Greater"
              ELSE IF self.price = other.price THEN "Equal"
              ELSE "Less"
         ELSE IF self.price < other.price THEN "Greater"
              ELSE IF self.price = other.price THEN "Equal"
              ELSE "Less"

\* ------------------------------------------------------- PriorityQueue
\* A queue is the sequence of its (item, priority) entries in push order.
QueueItems(q) == {q[i].item : i \in 1..Len(q)}

\* a removal that drains the queue
RemoveAt_all(q, i) == <<>>

\* the queue without its entry i
RemoveAt(q, i) == SubSeq(q, 1, i - 1) \o SubSeq(q, i + 1, Len(q))

\* PriorityQueue::push(item, priority): a new item is added with its priority;
\* an item already in the queue only has its priority replaced.
push(q, item, priority) ==
    IF \E i \in 1..Len(q) : q[i].item = item
    THEN [i \in 1..Len(q) |->
            IF q[i].item = item THEN [q[i] EXCEPT !.priority = priority] ELSE q[i]]
    ELSE Append(q, [item |-> item, priority |-> priority])

\* PriorityQueue::pop takes an entry of greatest priority.  Which of several
\* entries of equal priority it takes is the queue's choice.
pop_candidates(q) ==
    {i \in 1..Len(q) : \A j \in 1..Len(q) : q[j].priority <= q[i].priority}

\* ------------------------------------------------------------ OrderBook
\* OrderBook::new
NewOrderBook(sym) ==
    [symbol |-> sym, asks |-> <<>>, bids |-> <<>>, order_id_mapping |-> <<>>]

\* order_id_mapping is a function from the ids it holds to their orders
HasKey(m, id) == id \in DOMAIN m
Insert(m, id, o) == [k \in (DOMAIN m) \cup {id} |-> IF k = id THEN o ELSE m[k]]

Opposite(side) == IF side = "Buy" THEN "Sell" ELSE "Buy"

SideQueue(book, side) == IF side = "Buy" THEN book.bids ELSE book.asks

\* a duplicate test that never fires
add_order_rejects_never(book, order) == FALSE

\* OrderBook::add_order's duplicate test
add_order_rejects(book, order) == HasKey(book.order_id_mapping, order.order_id)

\* the calls a single heap ordered by OrderComparable and shared by both sides
\* would make
cmp_calls_shared_heap(book, order) ==
    {<<order, o>> : o \in QueueItems(book.bids) \cup QueueItems(book.asks)}

\* The pairs (self, other) on which OrderComparable::cmp is called while
\* add_order pushes `order`: none, both queues are keyed by the i32 priority.
cmp_calls(book, order) == {}

\* an add_order that forgets the index
add_order_book_unindexed(book, order) ==
    IF order.side = "Buy"
    THEN [book EXCEPT !.bids = push(book.bids, order, PushPriority)]
    ELSE [book EXCEPT !.asks = push(book.asks, order, PushPriority)]

\* an add_order with the two match arms exchanged
add_order_book_swapped(book, order) ==
    LET indexed == [book EXCEPT !.order_id_mapping =
                        Insert(book.order_id_mapping, order.order_id, order)]
    IN  IF order.side = "Buy"
        THEN [indexed EXCEPT !.asks = push(book.asks, order, PushPriority)]
        ELSE [indexed EXCEPT !.bids = push(book.bids, order, PushPriority)]

\* OrderBook::add_order, the book after an accepted order
add_order_book(book, order) ==
    LET indexed == [book EXCEPT !.order_id_mapping =
                        Insert(book.order_id_mapping, order.order_id, order)]
    IN  IF order.side = "Buy"
        THEN [indexed EXCEPT !.bids = push(book.bids, order, PushPriority)]
        ELSE [indexed EXCEPT !.asks = push(book.asks, order, PushPriority)]

\* a pop_order that also drops the popped order from the index
pop_order_book_unindexing(book, side, i) ==
    LET q == SideQueue(book, side)
        m == book.order_id_mapping
        kept == [k \in (DOMAIN m) \ {q[i].item.order_id} |-> m[k]]
    IN  IF side = "Buy"
        THEN [book EXCEPT !.bids = RemoveAt(q, i), !.order_id_mapping = kept]
        ELSE [book EXCEPT !.asks = RemoveAt(q, i), !.order_id_mapping = kept]

\* OrderBook::pop_order, the book after entry i of the side's queue is popped
pop_order_book(book, side, i) ==
    IF side = "Buy"
    THEN [book EXCEPT !.bids = RemoveAt(book.bids, i)]
    ELSE [book EXCEPT !.asks = RemoveAt(book.asks, i)]

\* HashMap::new() of ticker_mapping
EmptyTicker == [s \in {} |-> 0]

\* TradingEngine::new(Some(symbols), _); no call is in progress
EngineInit(symbols) ==
    /\ orderbook_mapping = [s \in symbols |-> NewOrderBook(s)]
    /\ trades = {}
    /\ cmp_panicked = FALSE
    /\ last = [op |-> "new"]
    /\ ticker_mapping = EmptyTicker
    /\ ticker_lock = Free
    /\ book_lock = [s \in symbols |-> Free]
    /\ threads = [t \in Threads |-> [pc |-> "idle"]]
    /\ shutdown = FALSE

\* TradingEngine::new
Init == EngineInit(Symbols)

\* TradingEngine::new(None, _)
InitDefault == EngineInit(DefaultSymbols)

\* OrderBook::add_order on the book of the order's symbol
add_order_call(order) ==
    LET sym == order.symbol
        book == orderbook_mapping[sym]
    IN  IF add_order_rejects(book, order)
        THEN /\ last' = [op |-> "add_order", symbol |-> sym,
                         order_id |-> order.order_id, result |-> FALSE]
             /\ UNCHANGED <<orderbook_mapping, trades, cmp_panicked>>
        ELSE /\ orderbook_mapping' =
                    [orderbook_mapping EXCEPT ![sym] = add_order_book(book, order)]
             /\ cmp_panicked' =
                    (cmp_panicked \/
                     \E c \in cmp_calls(book, order) : cmp(c[1], c[2]) = "panic")
             /\ last' = [op |-> "add_order", symbol |-> sym,
                         order_id |-> order.order_id, result |-> TRUE]
             /\ UNCHANGED trades

\* add_order called while no thread is inside another call
add_order(order) == add_order_call(order) /\ UNCHANGED conc_vars

\* OrderBook::pop_order
pop_order_call(sym, side) ==
    LET book == orderbook_mapping[sym]
        q == SideQueue(book, side)
    IN  IF q = <<>>
        THEN /\ last' = [op |-> "pop_order", symbol |-> sym, side |-> side,
                         popped |-> NoOrderId]
             /\ UNCHANGED <<orderbook_mapping, trades, cmp_panicked>>
        ELSE \E i \in pop_candidates(q) :
             /\ orderbook_mapping' =
                    [orderbook_mapping EXCEPT ![sym] = pop_order_book(book, side, i)]
             /\ last' = [op |-> "pop_order", symbol |-> sym, side |-> side,
                         popped |-> q[i].item.order_id]
             /\ UNCHANGED <<trades, cmp_panicked>>

\* pop_order called while no thread is inside another call
pop_order(sym, side) == pop_order_call(sym, side) /\ UNCHANGED conc_vars

\* a caller of OrderComparable::cmp; the panic ends the thread
cmp_call(self, other) ==
    /\ ~cmp_panicked
    /\ last' = [op |-> "cmp", self |-> self, other |-> other,
                 result |-> cmp(self, other)]
    /\ cmp_panicked' = (cmp(self, other) = "panic")
    /\ UNCHANGED <<orderbook_mapping, trades, conc_vars>>

\* ------------------------------------------------------- TradingEngine
\* TradingEngine::process_order: the body is `true`; `order` is what data holds
process_order(order) ==
    /\ last' = [op |-> "process_order", symbol |-> order.symbol, order |-> order,
                 result |-> TRUE]
    /\ UNCHANGED <<orderbook_mapping, trades, cmp_panicked, conc_vars>>

\* TradingEngine::close_order: the body is `true`
close_order(order_id, actual_price) ==
    /\ last' = [op |-> "close_order", order_id |-> order_id, result |-> TRUE]
    /\ UNCHANGED <<orderbook_mapping, trades, cmp_panicked, conc_vars>>

\* TradingEngine::init_orderbook: every symbol gets a new, empty OrderBook
\* behind a new Mutex, whether or not it had one
init_orderbook(symbols) ==
    /\ orderbook_mapping' =
            [s \in (DOMAIN orderbook_mapping) \cup symbols |->
                IF s \in symbols THEN NewOrderBook(s) ELSE orderbook_mapping[s]]
    /\ book_lock' =
            [s \in (DOMAIN book_lock) \cup symbols |->
                IF s \in symbols THEN Free ELSE book_lock[s]]
    /\ last' = [op |-> "init_orderbook", symbols |-> symbols]
    /\ UNCHANGED <<trades, cmp_panicked, ticker_mapping, ticker_lock, threads,
                   shutdown>>

\* TradingEngine::trade: the body is empty
trade(new_ticker) ==
    /\ last' = [op |-> "trade"]
    /\ UNCHANGED <<orderbook_mapping, trades, cmp_panicked, conc_vars>>

\* the Option<HashMap<String, f64>> values handed to trade
TickerBatches == {<<>>} \cup {[s \in S |-> p] : S \in SUBSET Symbols, p \in Prices}

\* --------------------------------------------------------------- threads
\* the HashMap<String, f64> batches handed to update_ticker
Batches ==
    UNION {[S -> Prices] : S \in SUBSET DefaultSymbols}

\* batches of at most one symbol
SmallBatches == {b \in Batches : Cardinality(DOMAIN b) <= 1}

\* a Mutex::lock that does not wait for the holder
can_lock_always(holder) == TRUE

\* Mutex::lock returns once no thread holds the Mutex
can_lock(holder) == holder = Free

\* a thread enters update_ticker(new_ticker)
ut_call(t, new_ticker) ==
    /\ threads[t].pc = "idle"
    /\ threads' = [threads EXCEPT ![t] =
            [pc |-> "lock", batch |-> new_ticker, todo |-> DOMAIN new_ticker]]
    /\ UNCHANGED <<orderbook_mapping, trades, cmp_panicked, last, ticker_mapping,
                   ticker_lock, book_lock, shutdown>>

\* update_ticker: self.ticker_mapping.lock().unwrap()
ut_lock(t) ==
    /\ threads[t].pc = "lock"
    /\ can_lock(ticker_lock)
    /\ ticker_lock' = t
    /\ threads' = [threads EXCEPT ![t].pc = "insert"]
    /\ UNCHANGED <<orderbook_mapping, trades, cmp_panicked, last, ticker_mapping,
                   book_lock, shutdown>>

\* an insert that first creates the symbol's order book
ut_insert_creating_book(t) ==
    /\ threads[t].pc = "insert"
    /\ \E s \in threads[t].todo :
        /\ ticker_mapping' = Insert(ticker_mapping, s, threads[t].batch[s])
        /\ threads' = [threads EXCEPT ![t].todo = @ \ {s}]
        /\ orderbook_mapping' =
                [k \in (DOMAIN orderbook_mapping) \cup {s} |->
                    IF k = s THEN NewOrderBook(s) ELSE orderbook_mapping[k]]
    /\ UNCHANGED <<trades, cmp_panicked, last, ticker_lock, book_lock, shutdown>>

\* an insert made under the lock of the symbol's order book
ut_insert_locking_book(t) ==
    /\ threads[t].pc = "insert"
    /\ \E s \in threads[t].todo :
        /\ s \in DOMAIN book_lock
        /\ can_lock(book_lock[s])
        /\ book_lock' = [book_lock EXCEPT ![s] = t]
        /\ ticker_mapping' = Insert(ticker_mapping, s, threads[t].batch[s])
        /\ threads' = [threads EXCEPT ![t].todo = @ \ {s}]
    /\ UNCHANGED <<orderbook_mapping, trades, cmp_panicked, last, ticker_lock,
                   shutdown>>

\* an insert that replaces the whole table by the entry
ut_insert_wholesale(t) ==
    /\ threads[t].pc = "insert"
    /\ \E s \in threads[t].todo :
        /\ ticker_mapping' = Insert(EmptyTicker, s, threads[t].batch[s])
        /\ threads' = [threads EXCEPT ![t].todo = @ \ {s}]
    /\ UNCHANGED <<orderbook_mapping, trades, cmp_panicked, last, ticker_lock,
                   book_lock, shutdown>>

\* update_ticker: one turn of the for loop, ticker_mapping.insert(symbol, price);
\* the HashMap hands out its entries in any order
ut_insert(t) ==
    /\ threads[t].pc = "insert"
    /\ \E s \in threads[t].todo :
        /\ ticker_mapping' = Insert(ticker_mapping, s, threads[t].batch[s])
        /\ threads' = [threads EXCEPT ![t].todo = @ \ {s}]
    /\ UNCHANGED <<orderbook_mapping, trades, cmp_panicked, last, ticker_lock,
                   book_lock, shutdown>>

\* update_ticker returns: the MutexGuard is dropped
ut_return(t) ==
    /\ threads[t].pc = "insert"
    /\ threads[t].todo = {}
    /\ ticker_lock' = Free
    /\ threads' = [threads EXCEPT ![t].pc = "done"]
    /\ UNCHANGED <<orderbook_mapping, trades, cmp_panicked, last, ticker_mapping,
                   book_lock, shutdown>>

\* TradingEngine::run: thread::spawn of the refresh loop
run ==
    /\ threads[Refresher].pc = "idle"
    /\ threads' = [threads EXCEPT ![Refresher].pc = "sleep"]
    /\ UNCHANGED <<orderbook_mapping, trades, cmp_panicked, last, ticker_mapping,
                   ticker_lock, book_lock, shutdown>>

\* the refresh loop: thread::sleep(Duration::from_secs(3)) is over
rf_sleep ==
    /\ threads[Refresher].pc = "sleep"
    /\ threads' = [threads EXCEPT ![Refresher].pc = "lock"]
    /\ UNCHANGED <<orderbook_mapping, trades, cmp_panicked, last, ticker_mapping,
                   ticker_lock, book_lock, shutdown>>

\* the refresh loop: ticker_mapping.lock().unwrap()
rf_lock ==
    /\ threads[Refresher].pc = "lock"
    /\ can_lock(ticker_lock)
    /\ ticker_lock' = Refresher
    /\ threads' = [threads EXCEPT ![Refresher].pc = "locked"]
    /\ UNCHANGED <<orderbook_mapping, trades, cmp_panicked, last, ticker_mapping,
                   book_lock, shutdown>>

\* a loop body that keeps its MutexGuard over the next sleep
rf_unlock_keeping ==
    /\ threads[Refresher].pc = "locked"
    /\ threads' = [threads EXCEPT ![Refresher].pc = "sleep"]
    /\ UNCHANGED <<orderbook_mapping, trades, cmp_panicked, last, ticker_mapping,
                   ticker_lock, book_lock, shutdown>>

\* the refresh loop: the body ends, the MutexGuard is dropped, the loop starts
\* over; there is no break
rf_unlock ==
    /\ threads[Refresher].pc = "locked"
    /\ ticker_lock' = Free
    /\ threads' = [threads EXCEPT ![Refresher].pc = "sleep"]
    /\ UNCHANGED <<orderbook_mapping, trades, cmp_panicked, last, ticker_mapping,
                   book_lock, shutdown>>

\* the owner of the engine asks for a shutdown; no code reads the request
signal_shutdown ==
    /\ ~shutdown
    /\ shutdown' = TRUE
    /\ UNCHANGED <<orderbook_mapping, trades, cmp_panicked, last, ticker_mapping,
                   ticker_lock, book_lock, threads>>

\* the orders the book threads submit, one per order book
WorkerOrders == {Order(1, s, "Buy", 1, 1) : s \in DefaultSymbols}

\* a thread starts an operation on the book of order.symbol
bk_call(t, order) ==
    /\ threads[t].pc = "idle"
    /\ threads' = [threads EXCEPT ![t] = [pc |-> "book_lock", order |-> order]]
    /\ UNCHANGED <<orderbook_mapping, trades, cmp_panicked, last, ticker_mapping,
                   ticker_lock, book_lock, shutdown>>

\* the thread locks the Mutex<OrderBook> of the symbol; it blocks while
\* another thread holds it
bk_lock(t) ==
    /\ threads[t].pc = "book_lock"
    /\ can_lock(book_lock[threads[t].order.symbol])
    /\ book_lock' = [book_lock EXCEPT ![threads[t].order.symbol] = t]
    /\ threads' = [threads EXCEPT ![t].pc = "book_op"]
    /\ UNCHANGED <<orderbook_mapping, trades, cmp_panicked, last, ticker_mapping,
                   ticker_lock, shutdown>>

\* OrderBook::add_order(&mut self, order) on the locked book; the MutexGuard
\* is dropped when the call returns
bk_add_order(t) ==
    /\ threads[t].pc = "book_op"
    /\ add_order_call(threads[t].order)
    /\ book_lock' = [book_lock EXCEPT ![threads[t].order.symbol] = Free]
    /\ threads' = [threads EXCEPT ![t].pc = "done"]
    /\ UNCHANGED <<ticker_mapping, ticker_lock, shutdown>>

\* add_order while the book has room for the order
engine_add_order(order) ==
    /\ \/ add_order_rejects(orderbook_mapping[order.symbol], order)
       \/ Cardinality(DOMAIN orderbook_mapping[order.symbol].order_id_mapping)
            < MaxEngineOrders
    /\ add_order(order)

Next ==
    \/ \E o \in Orders : add_order(o)
    \/ \E s \in Symbols, side \in Sides : pop_order(s, side)

Spec == Init /\ [][Next]_vars

\* calls of the comparator on any two orders
CmpNext == \E a, b \in Orders : cmp_call(a, b)

SpecCmp == Init /\ [][CmpNext]_vars

\* the engine's entry points over books that hold up to MaxEngineOrders orders
EngineNext ==
    \/ \E o \in Orders : engine_add_order(o)
    \/ \E s \in Symbols, side \in Sides : pop_order(s, side)
    \/ \E o \in Orders : process_order(o)
    \/ \E id \in OrderIds, p \in Prices : close_order(id, p)
    \/ \E t \in TickerBatches : trade(t)
    \/ \E syms \in (SUBSET DefaultSymbols) \ {{}} : init_orderbook(syms)

SpecEngine == Init /\ [][EngineNext]_vars

\* submissions of valid and invalid orders
SubmitNext ==
    \/ \E o \in SubmittedOrders : add_order(o)
    \/ \E o \in SubmittedOrders : process_order(o)
    \/ \E s \in Symbols, side \in Sides : pop_order(s, side)

SpecSubmit == Init /\ [][SubmitNext]_vars

\* the steps of a thread inside update_ticker
UpdaterRun(t) == ut_lock(t) \/ ut_insert(t) \/ ut_return(t)

\* the steps of one caller of update_ticker
UpdaterNext(t) ==
    \/ \E b \in Batches : ut_call(t, b)
    \/ UpdaterRun(t)

\* the steps of the refresh thread
RefresherNext == rf_sleep \/ rf_lock \/ rf_unlock

\* callers of update_ticker beside the refresh thread
TickerNext ==
    \/ \E t \in Updaters : UpdaterNext(t)
    \/ run
    \/ RefresherNext
    \/ signal_shutdown

SpecTicker == InitDefault /\ [][TickerNext]_vars

\* every thread that can take a step eventually takes one
SpecTickerFair ==
    /\ SpecTicker
    /\ \A t \in Updaters : WF_vars(UpdaterRun(t))
    /\ WF_vars(RefresherNext)

\* the steps of one thread that works on an order book
WorkerNext(t) ==
    \/ \E o \in WorkerOrders : bk_call(t, o)
    \/ bk_lock(t)
    \/ bk_add_order(t)

\* a caller of update_ticker with a batch of at most one symbol
UpdaterSmall(t) ==
    \/ \E b \in SmallBatches : ut_call(t, b)
    \/ UpdaterRun(t)

\* update_ticker, the refresh thread and book operations side by side
LocksNext ==
    \/ \E t \in Updaters : UpdaterSmall(t)
    \/ run
    \/ RefresherNext
    \/ \E t \in Workers : WorkerNext(t)

SpecLocks == InitDefault /\ [][LocksNext]_vars

\* ------------------------------------------------------- book properties
Book(sym) == orderbook_mapping[sym]
Resting(book) == QueueItems(book.bids) \cup QueueItems(book.asks)
RestingIds(book) == {o.order_id : o \in Resting(book)}
\* the number of entries of both sides that carry the order_id
LiveEntries(book, id) ==
    Cardinality({i \in 1..Len(book.bids) : book.bids[i].item.order_id = id})
    + Cardinality({i \in 1..Len(book.asks) : book.asks[i].item.order_id = id})

\* C1: add_order with an order_id that order_id_mapping already holds returns
\* false and leaves bids, asks and order_id_mapping unchanged, and no order_id
\* ever has two live entries in a book.
C1_DuplicateRejected ==
    /\ [][(/\ last'.op = "add_order"
           /\ HasKey(Book(last'.symbol).order_id_mapping, last'.order_id))
          => (/\ last'.result = FALSE
              /\ orderbook_mapping' = orderbook_mapping)]_vars
    /\ [](\A s \in Symbols : \A id \in OrderIds : LiveEntries(Book(s), id) <= 1)

\* a duplicate was submitted while the first order of that id still rests
C1_Witness ==
    /\ last.op = "add_order"
    /\ last.result = FALSE
    /\ last.order_id \in RestingIds(Book(last.symbol))

\* C2: every order in bids or asks has an entry in order_id_mapping under its
\* order_id, and that entry has the same leaves_qty.
C2_SideImpliesIndex ==
    \A s \in Symbols : \A o \in Resting(Book(s)) :
        /\ HasKey(Book(s).order_id_mapping, o.order_id)
        /\ Book(s).order_id_mapping[o.order_id].leaves_qty = o.leaves_qty

\* an order of quantity 2 rests after adds and a pop
C2_Witness ==
    /\ last.op = "pop_order"
    /\ last.popped # NoOrderId
    /\ \E o \in Resting(Book(last.symbol)) : o.leaves_qty = 2

\* C3: every order_id in order_id_mapping is in the queue of its side.
C3_IndexImpliesSide ==
    \A s \in Symbols : \A id \in DOMAIN Book(s).order_id_mapping :
        LET o == Book(s).order_id_mapping[id]
        IN  o \in QueueItems(SideQueue(Book(s), o.side))

\* C4: bids holds only Buy orders and asks only Sell orders, no order_id is on
\* both sides, and no order_id occurs twice within a side.
C4_SidePartition ==
    \A s \in Symbols :
        /\ \A o \in QueueItems(Book(s).bids) : o.side = "Buy"
        /\ \A o \in QueueItems(Book(s).asks) : o.side = "Sell"
        /\ \A id \in OrderIds : LiveEntries(Book(s), id) <= 1

\* both sides hold orders, the last of them just accepted
C4_Witness ==
    /\ last.op = "add_order"
    /\ last.result = TRUE
    /\ Len(Book(last.symbol).bids) + Len(Book(last.symbol).asks) >= 2
    /\ Book(last.symbol).bids # <<>>
    /\ Book(last.symbol).asks # <<>>

\* entry j of the queue is ahead of entry i in price-time priority: a better
\* price (higher for Buy, lower for Sell), or the same price and added earlier
Ahead(q, j, i) ==
    \/ cmp(q[j].item, q[i].item) = "Greater"
    \/ (q[j].item.price = q[i].item.price /\ j < i)

\* C5: pop_order returns the orders of a side by price (descending for Buy,
\* ascending for Sell) and, at one price, in the order they were added: the
\* order a pop returns has no order of its queue ahead of it.
C5_PriceTimePop ==
    [][(last'.op = "pop_order" /\ last'.popped # NoOrderId)
       => LET q == SideQueue(Book(last'.symbol), last'.side)
          IN  \A i, j \in 1..Len(q) :
                q[i].item.order_id = last'.popped => ~Ahead(q, j, i)]_vars

C19_PopFrame ==
    [][last'.op = "pop_order"
       => LET before == Book(last'.symbol)
              after == orderbook_mapping'[last'.symbol]
              q == SideQueue(before, last'.side)
              q2 == SideQueue(after, last'.side)
          IN  IF q = <<>>
              THEN last'.popped = NoOrderId /\ after = before
              ELSE /\ Len(q2) = Len(q) - 1
                   /\ \E i \in 1..Len(q) :
                        /\ q[i].item.order_id = last'.popped
                        /\ q2 = SubSeq(q, 1, i - 1) \o SubSeq(q, i + 1, Len(q))
                   /\ SideQueue(after, Opposite(last'.side))
                        = SideQueue(before, Opposite(last'.side))]_vars

\* an order was popped from a side that held two orders
C19_Witness ==
    /\ last.op = "pop_order"
    /\ last.popped # NoOrderId
    /\ Len(SideQueue(Book(last.symbol), last.side)) >= 1

\* C20: no OrderBook operation removes an entry of order_id_mapping, so an
\* order_id add_order once accepted is rejected by every later add_order on
\* that book, also after pop_order took the order off its side.
C20_IndexNeverShrinks ==
    [][\A s \in Symbols : \A id \in DOMAIN Book(s).order_id_mapping :
        /\ id \in DOMAIN orderbook_mapping'[s].order_id_mapping
        /\ (last'.op = "add_order" /\ last'.symbol = s /\ last'.order_id = id)
            => last'.result = FALSE]_vars

\* add_order refused an order_id whose order pop_order had already removed
C20_Witness ==
    /\ last.op = "add_order"
    /\ last.result = FALSE
    /\ last.order_id \notin RestingIds(Book(last.symbol))

\* C6: for two distinct orders of one side cmp ranks the better-priced one
\* first and, at equal prices, the earlier one; it never answers Equal.
C6_StrictTotalOrder ==
    (/\ last.op = "cmp"
     /\ last.self.side = last.other.side
     /\ last.self # last.other)
    => /\ last.result # "Equal"
       /\ (last.self.side = "Buy" /\ last.self.price > last.other.price)
            => last.result = "Greater"
       /\ (last.self.side = "Sell" /\ last.self.price < last.other.price)
            => last.result = "Greater"

\* ----------------------------------------------------- engine properties
Min(a, b) == IF a < b THEN a ELSE b

\* the best-priced resting orders of the side opposite to `order`
BestOpposite(book, order) ==
    LET opp == QueueItems(SideQueue(book, Opposite(order.side)))
    IN  {r \in opp : \A x \in opp :
            IF order.side = "Buy" THEN r.price <= x.price ELSE r.price >= x.price}

\* `order` crosses the resting order r
Crosses(order, r) ==
    IF order.side = "Buy" THEN order.price >= r.price ELSE order.price <= r.price

\* leaves_qty of the order_id on the side, 0 once it has left the side
LeavesOn(book, side, id) ==
    LET q == SideQueue(book, side)
    IN  IF \E i \in 1..Len(q) : q[i].item.order_id = id
        THEN (CHOOSE o \in QueueItems(q) : o.order_id = id).leaves_qty
        ELSE 0

\* C8: a submitted order (of an order_id the book has not seen) that crosses the best resting order of the opposite
\* side produces a trade at the resting order's price for the smaller of the
\* two leaves_qty, and both orders' leaves_qty drop by that quantity.
C8_MatchOnSubmit ==
    [][(/\ last'.op = "process_order"
        /\ ~HasKey(Book(last'.symbol).order_id_mapping, last'.order.order_id))
       => \A r \in BestOpposite(Book(last'.symbol), last'.order) :
            Crosses(last'.order, r)
            => LET o == last'.order
                   fill == Min(o.leaves_qty, r.leaves_qty)
               IN  /\ \E t \in trades' \ trades :
                        t.trade_price = r.price /\ t.trade_qty = fill
                   /\ LeavesOn(orderbook_mapping'[o.symbol], r.side, r.order_id)
                        = r.leaves_qty - fill
                   /\ LeavesOn(orderbook_mapping'[o.symbol], o.side, o.order_id)
                        <= o.leaves_qty - fill]_vars

\* C9: close_order for an order_id that rests in no book returns false and
\* changes no order book.
C9_CloseAbsentFails ==
    [][(/\ last'.op = "close_order"
        /\ \A s \in Symbols : last'.order_id \notin RestingIds(Book(s)))
       => (last'.result = FALSE /\ orderbook_mapping' = orderbook_mapping)]_vars

\* C10: after close_order succeeds for a resting order_id the order is in
\* neither side of its book nor in order_id_mapping.
C10_CloseRemoves ==
    [][(/\ last'.op = "close_order"
        /\ last'.result = TRUE
        /\ \E s \in Symbols : last'.order_id \in RestingIds(Book(s)))
       => \A s \in Symbols :
            /\ last'.order_id \notin RestingIds(orderbook_mapping'[s])
            /\ ~HasKey(orderbook_mapping'[s].order_id_mapping, last'.order_id)]_vars

\* C11: an order with qty = 0 or price <= 0 is rejected and leaves the book
\* alone, so no order of a book has a non-positive price or a zero quantity.
C11_InvalidRejected ==
    /\ \A s \in Symbols :
        \A o \in Resting(Book(s))
                \cup {Book(s).order_id_mapping[id] :
                        id \in DOMAIN Book(s).order_id_mapping} :
            o.price > 0 /\ o.qty > 0
    /\ (last.op = "process_order"
            /\ (last.order.price <= 0 \/ last.order.qty = 0))
        => last.result = FALSE

\* C12: init_orderbook for a symbol that has an order book leaves that book
\* and every order in it as they were.
C12_InitIdempotent ==
    [][last'.op = "init_orderbook"
       => \A s \in last'.symbols \cap DOMAIN orderbook_mapping :
            orderbook_mapping'[s] = orderbook_mapping[s]]_vars

\* ------------------------------------------------------ ticker properties
\* the refresh thread has been spawned and has not ended
RefresherRuns == threads[Refresher].pc \in {"sleep", "lock", "locked"}

\* the table after update_ticker(batch) ran alone on table m
Merged(m, batch) ==
    [k \in (DOMAIN m) \cup (DOMAIN batch) |->
        IF k \in DOMAIN batch THEN batch[k] ELSE m[k]]

\* C14: ticker_mapping is empty at construction; when update_ticker(batch)
\* returns every symbol of batch maps to batch's price; while the call runs no
\* other symbol changes its price; and no symbol ever leaves the table.
C14_TickerLifecycle ==
    /\ ticker_mapping = EmptyTicker
    /\ [][/\ DOMAIN ticker_mapping \subseteq DOMAIN ticker_mapping'
          /\ \A t \in Updaters :
                /\ (threads[t].pc = "insert" /\ threads'[t].pc = "done")
                    => \A s \in DOMAIN threads[t].batch :
                        /\ s \in DOMAIN ticker_mapping'
                        /\ ticker_mapping'[s] = threads[t].batch[s]
                /\ threads[t].pc = "insert"
                    => \A s \in (DOMAIN ticker_mapping) \ DOMAIN threads[t].batch :
                        ticker_mapping'[s] = ticker_mapping[s]]_vars

\* a call returned whose batch left a symbol of the table alone
C14_Witness ==
    \E t \in Updaters :
        /\ threads[t].pc = "done"
        /\ threads[t].batch # EmptyTicker
        /\ \E s \in DOMAIN ticker_mapping : s \notin DOMAIN threads[t].batch

\* C16: the inserts of concurrent update_ticker calls are never interleaved:
\* at most one call is inside its loop, and once all calls returned the table
\* is what the batches give when applied one after another in some order.
C16_BatchesAtomic ==
    /\ \A t, u \in Updaters :
        (threads[t].pc = "insert" /\ threads[u].pc = "insert") => t = u
    /\ (\A t \in Updaters : threads[t].pc = "done")
        => \E t, u \in Updaters :
            /\ t # u
            /\ ticker_mapping
                = Merged(Merged(EmptyTicker, threads[t].batch), threads[u].batch)

\* two calls with different prices for the same two symbols returned while
\* the refresh thread runs
C16_Witness ==
    /\ RefresherRuns
    /\ \A t \in Updaters :
        threads[t].pc = "done" /\ DOMAIN threads[t].batch = DefaultSymbols
    /\ \E t, u \in Updaters : \A s \in DefaultSymbols :
        threads[t].batch[s] # threads[u].batch[s]

\* C17: once a shutdown is requested the refresh loop eventually ends.
C17_RefreshCancellable ==
    (shutdown /\ RefresherRuns) ~> ~RefresherRuns

TickerLockName == "ticker"

\* the locks a thread holds: the ticker lock and the book locks by symbol
HeldBy(t) ==
    (IF ticker_lock = t THEN {TickerLockName} ELSE {})
    \cup {s \in DOMAIN book_lock : book_lock[s] = t}

\* the lock the next step of a thread acquires
Wanted(t) ==
    CASE threads[t].pc = "lock" -> {TickerLockName}
      [] threads[t].pc = "book_lock" -> {threads[t].order.symbol}
      [] OTHER -> {}

\* t waits for a lock that u holds
WaitsOn(t, u) == \E l \in Wanted(t) : l \in HeldBy(u)

\* the threads that run update_ticker or the refresh loop
TickerThreads == Updaters \cup {Refresher}

\* C13: a step of update_ticker or of the refresh loop of run changes only
\* ticker_mapping: the symbols of orderbook_mapping and every book's bids,
\* asks and order_id_mapping stay as they are, no order book lock changes
\* hands, and these threads never wait for an order book lock.
C13_TickerFrame ==
    [][\A t \in TickerThreads :
        /\ threads'[t] # threads[t]
            => /\ orderbook_mapping' = orderbook_mapping
               /\ book_lock' = book_lock
               /\ trades' = trades
        /\ Wanted(t) \subseteq {TickerLockName}
        /\ HeldBy(t) \subseteq {TickerLockName}]_vars

\* update_ticker returned for a symbol whose book holds an order, while
\* another thread holds a book lock
C13_Witness ==
    /\ \E t \in Updaters :
        /\ threads[t].pc = "done"
        /\ \E s \in DOMAIN threads[t].batch :
            /\ s \in DOMAIN ticker_mapping
            /\ orderbook_mapping[s].bids # <<>>
    /\ \E w \in Workers : HeldBy(w) # {}

\* C15: no thread holds two locks at once, no thread that holds a lock
\* waits for another one, and hence no set of threads wait on each other's
\* locks in a cycle.
C15_NoNestedLocking ==
    /\ \A t \in Threads :
        /\ Cardinality(HeldBy(t)) <= 1
        /\ HeldBy(t) # {} => Wanted(t) = {}
    /\ ~ \E S \in (SUBSET Threads) \ {{}} :
            \A t \in S : \E u \in S : WaitsOn(t, u)

\* both kinds of lock are held and each has a thread waiting for it
C15_Witness ==
    /\ \E t, u \in Updaters :
        /\ HeldBy(t) = {TickerLockName}
        /\ WaitsOn(Refresher, t)
        /\ WaitsOn(u, t)
    /\ \E w, x \in Workers : HeldBy(w) # {} /\ WaitsOn(x, w)
====
